---- MODULE Spec2Model ----
(***************************************************************************)
(* Model of src/app.py: a Flask service that returns the SHA-256 digest of *)
(* a posted text, instrumented with OpenTelemetry.                         *)
(*                                                                         *)
(* The module-level code of app.py (the telemetry bootstrap) is a          *)
(* sequential script; pc is its position.  Once the script has run to its  *)
(* end the routes are served.  The OTLP collector and the batch processors *)
(* worker threads are the environment of the handlers.                     *)
(***************************************************************************)
EXTENDS Integers, Sequences, FiniteSets, TLC

VARIABLES
  pc,            \* position of the module-level script of app.py
  environ,       \* os.environ["OTEL_EXPORTER_OTLP_ENDPOINT"] after load_dotenv
  otel_endpoint, \* the module global otel_endpoint
  installed,     \* process-wide installs, in the order they were made
  constructed,   \* telemetry objects constructed so far
  warnings,      \* number of export-disabled warnings logged
  collectorUp,   \* whether the OTLP collector currently accepts exports
  spanQueue,     \* spans waiting in the BatchSpanProcessor
  logQueue,      \* log records waiting in the BatchLogRecordProcessor
  servedWhileDown, \* a request was handled while the collector was down
  history        \* the completed HTTP exchanges, oldest first

vars == << pc, environ, otel_endpoint, installed, constructed, warnings,
           collectorUp, spanQueue, logQueue, servedWhileDown, history >>

----------------------------------------------------------------------------
(* Bounds *)

MaxTextLen == 1    \* longest text built from Alphabet
MaxRequests == 3   \* exchanges kept in history
MaxQueue == 1      \* capacity of a batch processor queue

----------------------------------------------------------------------------
(* hashlib.sha256: FIPS 180-4 on 32-bit words.  A word is a pair          *)
(* << high 16 bits, low 16 bits >> so that every sum stays below 2^31.    *)

RECURSIVE BitOp16(_, _, _, _)
BitOp16(op, a, b, n) ==
  IF n = 0 THEN 0
  ELSE (IF op = "xor" THEN (a + b) % 2 ELSE (a % 2) * (b % 2))
       + 2 * BitOp16(op, a \div 2, b \div 2, n - 1)

Xor(a, b) == << BitOp16("xor", a[1], b[1], 16), BitOp16("xor", a[2], b[2], 16) >>
And(a, b) == << BitOp16("and", a[1], b[1], 16), BitOp16("and", a[2], b[2], 16) >>
Not(a) == << 65535 - a[1], 65535 - a[2] >>
Add(a, b) ==
  LET lo == a[2] + b[2]
      hi == a[1] + b[1] + (lo \div 65536)
  IN << hi % 65536, lo % 65536 >>
RotR(a, n) ==
  LET w == IF n >= 16 THEN << a[2], a[1] >> ELSE a
      m == n % 16
  IN IF m = 0 THEN w
     ELSE << (w[1] \div (2^m)) + (w[2] % (2^m)) * (2^(16 - m)),
             (w[2] \div (2^m)) + (w[1] % (2^m)) * (2^(16 - m)) >>
ShR(a, n) ==
  LET w == IF n >= 16 THEN << 0, a[1] >> ELSE a
      m == n % 16
  IN IF m = 0 THEN w
     ELSE << w[1] \div (2^m),
             (w[2] \div (2^m)) + (w[1] % (2^m)) * (2^(16 - m)) >>

K ==
  << <<17034, 12184>>, <<28983, 17553>>, <<46528, 64463>>, <<59829, 56229>>,
     <<14678, 49755>>, <<23025, 4593>>, <<37439, 33444>>, <<43804, 24277>>,
     <<55303, 43672>>, <<4739, 23297>>, <<9265, 34238>>, <<21772, 32195>>,
     <<29374, 23924>>, <<32990, 45566>>, <<39900, 1703>>, <<49563, 61812>>,
     <<58523, 27073>>, <<61374, 18310>>, <<4033, 40390>>, <<9228, 41420>>,
     <<11753, 11375>>, <<19060, 33962>>, <<23728, 43484>>, <<30457, 35034>>,
     <<38974, 20818>>, <<43057, 50797>>, <<45059, 10184>>, <<48985, 32711>>,
     <<50912, 3059>>, <<54695, 37191>>, <<1738, 25425>>, <<5161, 10599>>,
     <<10167, 2693>>, <<11803, 8504>>, <<19756, 28156>>, <<21304, 3347>>,
     <<25866, 29524>>, <<30314, 2747>>, <<33218, 51502>>, <<37490, 11397>>,
     <<41663, 59553>>, <<43034, 26187>>, <<49739, 35696>>, <<51052, 20899>>,
     <<53650, 59417>>, <<54937, 1572>>, <<62478, 13701>>, <<4202, 41072>>,
     <<6564, 49430>>, <<7735, 27656>>, <<10056, 30540>>, <<13488, 48309>>,
     <<14620, 3251>>, <<20184, 43594>>, <<23452, 51791>>, <<26670, 28659>>,
     <<29839, 33518>>, <<30885, 25455>>, <<33992, 30740>>, <<36039, 520>>,
     <<37054, 65530>>, <<42064, 27883>>, <<48889, 41975>>, <<50801, 30962>> >>

H0 ==
  << <<27145, 58983>>, <<47975, 44677>>, <<15470, 62322>>, <<42319, 62778>>,
     <<20750, 21119>>, <<39685, 26764>>, <<8067, 55723>>, <<23520, 52505>> >>

BigSigma0(a) == Xor(Xor(RotR(a, 2), RotR(a, 13)), RotR(a, 22))
BigSigma1(e) == Xor(Xor(RotR(e, 6), RotR(e, 11)), RotR(e, 25))
SmallSigma0(w) == Xor(Xor(RotR(w, 7), RotR(w, 18)), ShR(w, 3))
SmallSigma1(w) == Xor(Xor(RotR(w, 17), RotR(w, 19)), ShR(w, 10))
Ch(e, f, g) == Xor(And(e, f), And(Not(e), g))
Maj(a, b, c) == Xor(Xor(And(a, b), And(a, c)), And(b, c))

RECURSIVE Zeros(_)
Zeros(n) == IF n = 0 THEN << >> ELSE << 0 >> \o Zeros(n - 1)

\* 0x80, zero bytes up to 56 mod 64, then the bit length as 64-bit big-endian
Pad(bytes) ==
  LET n == Len(bytes)
      bits == n * 8
  IN bytes \o << 128 >> \o Zeros((119 - n) % 64)
       \o << 0, 0, 0, 0, (bits \div 16777216) % 256, (bits \div 65536) % 256,
             (bits \div 256) % 256, bits % 256 >>

\* the message schedule w[1..64]; the length test also has the schedule
\* evaluated before each further step
RECURSIVE Schedule(_, _)
Schedule(w, t) ==
  IF t > 64 \/ Len(w) # t - 1 THEN w
  ELSE Schedule(Append(w, Add(Add(SmallSigma1(w[t - 2]), w[t - 7]),
                              Add(SmallSigma0(w[t - 15]), w[t - 16]))), t + 1)

\* the 64 rounds on the working variables s = << a, b, c, d, e, f, g, h >>
RECURSIVE Rounds(_, _, _)
Rounds(s, w, t) ==
  IF t > 64 \/ Len(s) # 8 THEN s
  ELSE LET t1 == Add(Add(Add(s[8], BigSigma1(s[5])),
                         Add(Ch(s[5], s[6], s[7]), K[t])), w[t])
           t2 == Add(BigSigma0(s[1]), Maj(s[1], s[2], s[3]))
       IN Rounds(<< Add(t1, t2), s[1], s[2], s[3],
                    Add(s[4], t1), s[5], s[6], s[7] >>, w, t + 1)

Compress(h, block) ==
  LET w16 == [i \in 1..16 |-> << block[4*i - 3] * 256 + block[4*i - 2],
                                 block[4*i - 1] * 256 + block[4*i] >>]
      s == Rounds(h, Schedule(w16, 17), 1)
  IN << Add(h[1], s[1]), Add(h[2], s[2]), Add(h[3], s[3]), Add(h[4], s[4]),
        Add(h[5], s[5]), Add(h[6], s[6]), Add(h[7], s[7]), Add(h[8], s[8]) >>

RECURSIVE Blocks(_, _)
Blocks(h, m) ==
  IF Len(m) = 0 THEN h
  ELSE Blocks(Compress(h, SubSeq(m, 1, 64)), SubSeq(m, 65, Len(m)))

\* hashlib.sha256(bytes): the eight words of the digest
sha256(bytes) == Blocks(H0, Pad(bytes))

HexDigit(n) == SubSeq("0123456789abcdef", n + 1, n + 1)
Hex16(v) == HexDigit(v \div 4096) \o HexDigit((v \div 256) % 16)
            \o HexDigit((v \div 16) % 16) \o HexDigit(v % 16)

\* hash_object.hexdigest(): lowercase hexadecimal, most significant first
RECURSIVE hexdigest(_)
hexdigest(h) ==
  IF Len(h) = 0 THEN ""
  ELSE Hex16(Head(h)[1]) \o Hex16(Head(h)[2]) \o hexdigest(Tail(h))

----------------------------------------------------------------------------
(* Python values.  A str is the sequence of its code points.              *)

Alphabet == {104}                       \* "h"
SampleTexts ==
  { << 233 >>,                          \* e with acute accent, 2 bytes in UTF-8
    << 8364, 128512 >>,                 \* euro sign and an emoji, 3 and 4 bytes
    << 55296 >> }                       \* "\ud800", which json.loads accepts
Texts == UNION { [1..n -> Alphabet] : n \in 0..MaxTextLen } \cup SampleTexts

None == [type |-> "NoneType", chars |-> << >>]
Str(t) == [type |-> "str", chars |-> t]

\* UTF-8 encoding of one code point; << >> for a surrogate, which has none
EncodeCodePoint(c) ==
  IF c < 128 THEN << c >>
  ELSE IF c < 2048 THEN << 192 + (c \div 64), 128 + (c % 64) >>
  ELSE IF c >= 55296 /\ c <= 57343 THEN << >>
  ELSE IF c < 65536
    THEN << 224 + (c \div 4096), 128 + ((c \div 64) % 64), 128 + (c % 64) >>
  ELSE << 240 + (c \div 262144), 128 + ((c \div 4096) % 64),
          128 + ((c \div 64) % 64), 128 + (c % 64) >>

RECURSIVE EncodeChars(_)
EncodeChars(t) ==
  IF Len(t) = 0 THEN << >> ELSE EncodeCodePoint(Head(t)) \o EncodeChars(Tail(t))

\* the text kept in a module global that the next request reads: the bytes
\* are those of the text of the /hash request before this one, if there was one
encode_shared(t) ==
  LET P == { i \in 1..Len(history) : /\ history[i].route = "/hash"
                                     /\ history[i].req.body.has_text
                                     /\ history[i].req.body.text.type = "str" }
      last == CHOOSE i \in P : \A j \in P : j <= i
      u == IF P = { } THEN t ELSE history[last].req.body.text.chars
  IN IF \E i \in 1..Len(u) : u[i] >= 55296 /\ u[i] <= 57343
     THEN [raised |-> "UnicodeEncodeError", bytes |-> << >>]
     ELSE [raised |-> "", bytes |-> EncodeChars(u)]

\* str.encode(): UTF-8, errors="strict"; raises UnicodeEncodeError on a surrogate
encode(t) ==
  IF \E i \in 1..Len(t) : t[i] >= 55296 /\ t[i] <= 57343
  THEN [raised |-> "UnicodeEncodeError", bytes |-> << >>]
  ELSE [raised |-> "", bytes |-> EncodeChars(t)]

\* the digests of the encodable texts of the model, computed once
DigestTable ==
  [b \in { EncodeChars(t) : t \in Texts } |-> hexdigest(sha256(b))]

\* a digest taken from the table when the table has it
Tabled(table, b) == IF b \in DOMAIN table THEN table[b] ELSE hexdigest(sha256(b))

\* hashlib.sha256(b).hexdigest()
sha256_hexdigest(b) == Tabled(DigestTable, b)

RECURSIVE Repeat(_, _)
\* s * n for a str s
Repeat(s, n) == IF n <= 0 THEN "" ELSE s \o Repeat(s, n - 1)

----------------------------------------------------------------------------
(* Requests *)

Bodies ==
  { [syntax |-> "malformed", has_text |-> FALSE, text |-> None],   \* not JSON
    [syntax |-> "object", has_text |-> FALSE, text |-> None],      \* {}
    [syntax |-> "object", has_text |-> TRUE, text |-> None] }      \* {"text": null}
  \cup { [syntax |-> "object", has_text |-> TRUE, text |-> Str(t)] : t \in Texts }

\* the form page posts application/json
HashRequests == { [mimetype |-> "application/json", body |-> b] : b \in Bodies }

NoRequest == [mimetype |-> "", body |-> [syntax |-> "", has_text |-> FALSE, text |-> None]]

----------------------------------------------------------------------------
(* The routes *)

\* what a handler run leaves behind: the exception it raised ("" for none),
\* the dict it passed to jsonify, and its telemetry
Outcome(raised, value, events, attributes, logs) ==
  [raised |-> raised, value |-> value, events |-> events,
   attributes |-> attributes, logs |-> logs]

NoValue == [kind |-> "none"]

\* get_json(silent=True): a parse failure yields None instead of a 400
get_json_silent(req) ==
  IF req.mimetype # "application/json" THEN [raised |-> "UnsupportedMediaType"]
  ELSE [raised |-> ""]

\* request.get_json(): 415 unless the mimetype is JSON (Flask 2.1 and later),
\* 400 on a parse failure
get_json(req) ==
  IF req.mimetype # "application/json" THEN [raised |-> "UnsupportedMediaType"]
  ELSE IF req.body.syntax = "malformed" THEN [raised |-> "BadRequest"]
  ELSE [raised |-> ""]

\* data.get("text"): no default
dict_get_text_no_default(body) == IF body.has_text THEN body.text ELSE None

\* data.get("text", "")
dict_get_text(body) == IF body.has_text THEN body.text ELSE Str(<< >>)

\* a span started and ended by hand: an exception skips the end
with_span_leak(raised, value, events, attributes, logs) ==
  Outcome(raised, value,
          << "span_start" >> \o events
            \o (IF raised = "" THEN << "span_end" >> ELSE << >>),
          attributes, logs)

\* masking that leaves the last character readable
masked_input_partial(t) ==
  IF Len(t) = 0 THEN "" ELSE Repeat("*", Len(t) - 1) \o ToString(t[Len(t)])

\* line 137: "*" * len(input_text)
masked_input(t) == Repeat("*", Len(t))

\* the with block of generate_hash: an exception leaving the block is recorded
\* on the span, the span is ended and the exception propagates
with_span(raised, value, events, attributes, logs) ==
  Outcome(raised, value,
          << "span_start" >> \o events
            \o (IF raised = "" THEN << >> ELSE << "record_exception" >>)
            \o << "span_end" >>,
          attributes, logs)

\* lines 144-151, once the digest is there
hashed(input_text, hash_hex, a1, l1) ==
  with_span("", [kind |-> "hash", input |-> input_text, hash |-> hash_hex,
                 algorithm |-> "SHA256"],
            << "get_json", "set_attribute:input.length", "log:masked_input",
               "sha256", "set_attribute:hash.algorithm", "log:hash_prefix",
               "jsonify" >>,
            Append(a1, << "hash.algorithm", "SHA256" >>),
            Append(l1, "Generated hash: " \o SubSeq(hash_hex, 1, 16) \o "..."))

generate_hash(req) ==
  LET data == get_json(req)
      input_text == dict_get_text(req.body)
      n == Len(input_text.chars)
      a1 == << << "input.length", n >> >>
      l1 == << "Generating hash for input: " \o masked_input(input_text.chars)
                 \o " (length: " \o ToString(n) \o ")" >>
      encoded == encode(input_text.chars)
  IN IF data.raised # ""
       THEN with_span(data.raised, NoValue, << "get_json" >>, << >>, << >>)
     ELSE IF req.body.syntax # "object"
       THEN with_span("AttributeError", NoValue, << "get_json" >>, << >>, << >>)
     ELSE IF input_text.type # "str"
       THEN with_span("TypeError", NoValue, << "get_json" >>, << >>, << >>)
     ELSE IF encoded.raised # ""
       THEN with_span(encoded.raised, NoValue,
                      << "get_json", "set_attribute:input.length", "log:masked_input" >>,
                      a1, l1)
     ELSE hashed(input_text, sha256_hexdigest(encoded.bytes), a1, l1)

health(req) ==
  Outcome("", [kind |-> "health", status |-> "healthy"], << "jsonify" >>, << >>, << >>)

\* Flask: an HTTPException becomes its own response, any other exception a 500
StatusOf(raised) ==
  CASE raised = "" -> 200
    [] raised = "BadRequest" -> 400
    [] raised = "UnsupportedMediaType" -> 415
    [] OTHER -> 500

\* the exchange that the outcome o of the view function makes
Exchange(route, req, o) ==
  [route |-> route, req |-> req, status |-> StatusOf(o.raised),
   body |-> IF o.raised = "" THEN o.value ELSE [kind |-> "error", name |-> o.raised],
   events |-> << "server_span_start" >> \o o.events \o << "server_span_end" >>,
   attributes |-> o.attributes, logs |-> o.logs]

\* the instrumented WSGI application: a server span around the dispatch
Dispatch(route, req) ==
  Exchange(route, req, IF route = "/hash" THEN generate_hash(req) ELSE health(req))

----------------------------------------------------------------------------
(* The module-level script: telemetry bootstrap *)

Unset == "<unset>"
EnvValues == { Unset, "", "http://collector:4317" }

\* os.getenv(name): None when unset
getenv(v) == v
\* truth value of an Optional[str]: None and "" are false
Truthy(v) == v # Unset /\ v # ""

ExportMachinery ==
  { "OTLPSpanExporter", "BatchSpanProcessor", "OTLPLogExporter",
    "BatchLogRecordProcessor", "LoggingHandler", "OTLPMetricExporter",
    "PeriodicExportingMetricReader", "SystemMetricsInstrumentor" }

Init ==
  /\ pc = "tracer_provider"
  /\ environ \in EnvValues
  /\ otel_endpoint = "<unassigned>"
  /\ installed = << >>
  /\ constructed = { }
  /\ warnings = 0
  /\ collectorUp \in BOOLEAN
  /\ spanQueue = 0
  /\ logQueue = 0
  /\ servedWhileDown = FALSE
  /\ history = << >>

\* lines 44-53: the resource and the tracer provider
ConfigureTracerProvider ==
  /\ pc = "tracer_provider"
  /\ constructed' = constructed \cup { "Resource", "TracerProvider" }
  /\ installed' = Append(installed, "set_tracer_provider")
  /\ pc' = "logger_provider"
  /\ UNCHANGED << environ, otel_endpoint, warnings, collectorUp, spanQueue,
                  logQueue, servedWhileDown, history >>

\* lines 56-57
ConfigureLoggerProvider ==
  /\ pc = "logger_provider"
  /\ constructed' = constructed \cup { "LoggerProvider" }
  /\ installed' = Append(installed, "set_logger_provider")
  /\ pc' = "getenv"
  /\ UNCHANGED << environ, otel_endpoint, warnings, collectorUp, spanQueue,
                  logQueue, servedWhileDown, history >>

\* line 62
GetEndpoint ==
  /\ pc = "getenv"
  /\ otel_endpoint' = getenv(environ)
  /\ pc' = "exporters"
  /\ UNCHANGED << environ, installed, constructed, warnings, collectorUp,
                  spanQueue, logQueue, servedWhileDown, history >>

\* lines 63-94: the three export pipelines and the logging bridge
ConfigureExporters ==
  /\ pc = "exporters"
  /\ Truthy(otel_endpoint)
  /\ constructed' = constructed \cup
       { "OTLPSpanExporter", "BatchSpanProcessor", "OTLPLogExporter",
         "BatchLogRecordProcessor", "LoggingHandler", "OTLPMetricExporter",
         "PeriodicExportingMetricReader", "MeterProvider" }
  /\ installed' = Append(installed, "set_meter_provider")
  /\ pc' = "instrument_app"
  /\ UNCHANGED << environ, otel_endpoint, warnings, collectorUp, spanQueue,
                  logQueue, servedWhileDown, history >>

\* the else branch without its meter provider
WarnExportDisabled_no_meter ==
  /\ pc = "exporters"
  /\ ~Truthy(otel_endpoint)
  /\ warnings' = warnings + 1
  /\ pc' = "instrument_app"
  /\ UNCHANGED << environ, otel_endpoint, installed, constructed, collectorUp,
                  spanQueue, logQueue, servedWhileDown, history >>

\* lines 95-103: the warning and a meter provider without readers
WarnExportDisabled ==
  /\ pc = "exporters"
  /\ ~Truthy(otel_endpoint)
  /\ warnings' = warnings + 1
  /\ constructed' = constructed \cup { "MeterProvider" }
  /\ installed' = Append(installed, "set_meter_provider")
  /\ pc' = "instrument_app"
  /\ UNCHANGED << environ, otel_endpoint, collectorUp, spanQueue, logQueue,
                  servedWhileDown, history >>

\* line 106
InstrumentApp ==
  /\ pc = "instrument_app"
  /\ constructed' = constructed \cup { "FlaskInstrumentor" }
  /\ installed' = Append(installed, "instrument_app")
  /\ pc' = "system_metrics"
  /\ UNCHANGED << environ, otel_endpoint, warnings, collectorUp, spanQueue,
                  logQueue, servedWhileDown, history >>

\* system metrics instrumented whether or not an endpoint is configured
InstrumentSystemMetrics_always ==
  /\ pc = "system_metrics"
  /\ constructed' = constructed \cup { "SystemMetricsInstrumentor" }
  /\ installed' = Append(installed, "instrument_system_metrics")
  /\ pc' = "get_tracer"
  /\ UNCHANGED << environ, otel_endpoint, warnings, collectorUp, spanQueue,
                  logQueue, servedWhileDown, history >>

\* lines 110-111
InstrumentSystemMetrics ==
  /\ pc = "system_metrics"
  /\ IF Truthy(otel_endpoint)
       THEN /\ constructed' = constructed \cup { "SystemMetricsInstrumentor" }
            /\ installed' = Append(installed, "instrument_system_metrics")
       ELSE UNCHANGED << constructed, installed >>
  /\ pc' = "get_tracer"
  /\ UNCHANGED << environ, otel_endpoint, warnings, collectorUp, spanQueue,
                  logQueue, servedWhileDown, history >>

\* line 114; the module is imported and the routes are served from here on
GetTracer ==
  /\ pc = "get_tracer"
  /\ pc' = "serving"
  /\ UNCHANGED << environ, otel_endpoint, installed, constructed, warnings,
                  collectorUp, spanQueue, logQueue, servedWhileDown, history >>

----------------------------------------------------------------------------
(* Serving *)

Min(a, b) == IF a < b THEN a ELSE b

\* BatchSpanProcessor.on_end / BatchLogRecordProcessor.emit for n records:
\* queued for the worker thread, dropped when the queue is full; without a
\* processor the records go nowhere
Enqueue(queue, processor, n) ==
  IF processor \in constructed THEN Min(MaxQueue, queue + n) ELSE queue

\* spans exported in the request thread: an unreachable collector fails the
\* request
Complete_sync_export(e, spans) ==
  /\ history' = Append(history,
       IF "BatchSpanProcessor" \in constructed /\ ~collectorUp
       THEN [e EXCEPT !.status = 500,
                      !.body = [kind |-> "error", name |-> "ExportError"]]
       ELSE e)
  /\ logQueue' = Enqueue(logQueue, "LoggingHandler", Len(e.logs))
  /\ servedWhileDown' = (servedWhileDown \/ ~collectorUp)
  /\ UNCHANGED << pc, environ, otel_endpoint, installed, constructed, warnings,
                  collectorUp, spanQueue >>

\* the end of a request: the exchange e is complete, its spans are ended and
\* handed to the span processor, its log records to the bridge handler
Complete(e, spans) ==
  /\ history' = Append(history, e)
  /\ spanQueue' = Enqueue(spanQueue, "BatchSpanProcessor", spans)
  /\ logQueue' = Enqueue(logQueue, "LoggingHandler", Len(e.logs))
  /\ servedWhileDown' = (servedWhileDown \/ ~collectorUp)
  /\ UNCHANGED << pc, environ, otel_endpoint, installed, constructed, warnings,
                  collectorUp >>

\* one request, from the WSGI entry to the response; spans counts the spans
\* ended for it
Serve(route, req, spans) ==
  /\ pc = "serving"
  /\ Len(history) < MaxRequests
  /\ Complete(Dispatch(route, req), spans)

GenerateHash == \E req \in HashRequests : Serve("/hash", req, 2)

\* a health check that reports the collector
Health_needs_collector ==
  /\ pc = "serving"
  /\ Len(history) < MaxRequests
  /\ history' = Append(history,
       [Dispatch("/health", NoRequest) EXCEPT
          !.status = IF collectorUp THEN 200 ELSE 503,
          !.body = [kind |-> "health",
                    status |-> IF collectorUp THEN "healthy" ELSE "unhealthy"]])
  /\ spanQueue' = Enqueue(spanQueue, "BatchSpanProcessor", 1)
  /\ servedWhileDown' = (servedWhileDown \/ ~collectorUp)
  /\ UNCHANGED << pc, environ, otel_endpoint, installed, constructed, warnings,
                  collectorUp, logQueue >>

Health == Serve("/health", NoRequest, 1)

\* the collector becomes unreachable, or reachable again
CollectorChange ==
  /\ collectorUp' = ~collectorUp
  /\ UNCHANGED << pc, environ, otel_endpoint, installed, constructed, warnings,
                  spanQueue, logQueue, servedWhileDown, history >>

\* the worker thread of the BatchSpanProcessor (lines 68-73): the batch leaves
\* the queue whether or not the export succeeds; a failed export is logged by
\* the exporter, and the bridge handler queues that record
ExportSpans ==
  /\ pc = "serving"
  /\ "BatchSpanProcessor" \in constructed
  /\ spanQueue > 0
  /\ spanQueue' = 0
  /\ logQueue' = IF collectorUp THEN logQueue
                 ELSE Enqueue(logQueue, "LoggingHandler", 1)
  /\ UNCHANGED << pc, environ, otel_endpoint, installed, constructed, warnings,
                  collectorUp, servedWhileDown, history >>

\* the worker thread of the BatchLogRecordProcessor (lines 77-82)
ExportLogs ==
  /\ pc = "serving"
  /\ "BatchLogRecordProcessor" \in constructed
  /\ logQueue > 0
  /\ logQueue' = IF collectorUp THEN 0 ELSE 1
  /\ UNCHANGED << pc, environ, otel_endpoint, installed, constructed, warnings,
                  collectorUp, spanQueue, servedWhileDown, history >>

Next ==
  \/ ConfigureTracerProvider
  \/ ConfigureLoggerProvider
  \/ GetEndpoint
  \/ ConfigureExporters
  \/ WarnExportDisabled
  \/ InstrumentApp
  \/ InstrumentSystemMetrics
  \/ GetTracer
  \/ GenerateHash
  \/ Health
  \/ CollectorChange
  \/ ExportSpans
  \/ ExportLogs

Spec == Init /\ [][Next]_vars

----------------------------------------------------------------------------
(* Properties *)

Exchanges == { history[i] : i \in 1..Len(history) }

\* a POST /hash whose body is a JSON object
IsJsonObject(e) ==
  /\ e.route = "/hash"
  /\ e.req.mimetype = "application/json"
  /\ e.req.body.syntax = "object"

\* ... with a string text
HasStringText(e) ==
  /\ IsJsonObject(e)
  /\ e.req.body.has_text
  /\ e.req.body.text.type = "str"

TextOf(e) == e.req.body.text.chars

IsLowerHex(h) ==
  \A i \in 1..Len(h) :
    SubSeq(h, i, i) \in { "0", "1", "2", "3", "4", "5", "6", "7", "8", "9",
                          "a", "b", "c", "d", "e", "f" }

EmptyDigest == "e3b0c44298fc1c149afbf4c8996fb92427ae41e4649b934ca495991b7852b855"

Count(seq, x) == Cardinality({ i \in 1..Len(seq) : seq[i] = x })
Pos(seq, x) == CHOOSE i \in 1..Len(seq) : seq[i] = x
IsPrefix(p, q) == Len(p) <= Len(q) /\ SubSeq(q, 1, Len(p)) = p

\* C1: every POST /hash whose JSON body is an object with a string text is
\* answered 200 with {input, hash, algorithm}: input is the text unchanged,
\* algorithm is "SHA256" and hash is the SHA-256 digest of the UTF-8 bytes of
\* the text as 64 lowercase hexadecimal characters.
C1_EveryStringTextIsHashed ==
  \A e \in Exchanges :
    HasStringText(e) =>
      /\ e.status = 200
      /\ e.body.kind = "hash"
      /\ e.body.input = Str(TextOf(e))
      /\ e.body.algorithm = "SHA256"
      /\ Len(e.body.hash) = 64
      /\ IsLowerHex(e.body.hash)
      /\ e.body.hash = sha256_hexdigest(EncodeChars(TextOf(e)))

\* C2: a POST /hash whose JSON object has no text field is answered 200 with
\* input "" and the digest of the empty byte string, the same response as for
\* a request that supplies text "".
C2_MissingTextIsEmptyText ==
  \A e \in Exchanges :
    (IsJsonObject(e) /\ ~e.req.body.has_text) =>
      /\ e.status = 200
      /\ e.body = [kind |-> "hash", input |-> Str(<< >>), hash |-> EmptyDigest,
                   algorithm |-> "SHA256"]
      /\ \A f \in Exchanges :
           (HasStringText(f) /\ TextOf(f) = << >>) =>
             (f.status = e.status /\ f.body = e.body)

C2_Witness ==
  /\ \E e \in Exchanges : IsJsonObject(e) /\ ~e.req.body.has_text
  /\ \E f \in Exchanges : HasStringText(f) /\ TextOf(f) = << >>

\* C3: in every state of the running service, on either bootstrap branch and
\* after any requests, GET /health is answered 200 with {status: "healthy"}.
C3_HealthAlwaysHealthy ==
  \A e \in Exchanges :
    e.route = "/health" =>
      (e.status = 200 /\ e.body = [kind |-> "health", status |-> "healthy"])

C3_Witness ==
  /\ Len(history) = 3
  /\ history[1].route = "/hash" /\ history[1].status = 500
  /\ history[2].route = "/health"
  /\ history[3].route = "/health"
  /\ servedWhileDown /\ ~collectorUp
  /\ "BatchSpanProcessor" \in constructed

\* C4: with OTEL_EXPORTER_OTLP_ENDPOINT unset or empty, bootstrap constructs
\* no exporter, batch processor, metric reader, logging bridge handler or
\* system-metrics instrumentation, logs the export-disabled warning exactly
\* once, and nothing is ever queued for export.
C4_NoExportMachineryWithoutEndpoint ==
  ~Truthy(environ) =>
    /\ constructed \cap ExportMachinery = { }
    /\ warnings = (IF pc \in { "instrument_app", "system_metrics", "get_tracer",
                               "serving" } THEN 1 ELSE 0)
    /\ spanQueue = 0 /\ logQueue = 0
    /\ pc = "serving" =>
         /\ { "TracerProvider", "LoggerProvider", "MeterProvider",
              "FlaskInstrumentor" } \subseteq constructed
         /\ installed = << "set_tracer_provider", "set_logger_provider",
                           "set_meter_provider", "instrument_app" >>

C4_Witness ==
  /\ environ = ""
  /\ pc = "serving"
  /\ warnings = 1
  /\ \E e \in Exchanges : e.route = "/hash" /\ e.status = 200
  /\ \E e \in Exchanges : e.route = "/health" /\ e.status = 200

SameResponse(e, f) == e.status = f.status /\ e.body = f.body

C7_MalformedJsonIsClientError ==
  \A e \in Exchanges :
    (e.route = "/hash" /\ e.req.body.syntax = "malformed") =>
      /\ e.status >= 400 /\ e.status <= 499
      /\ e.body.kind = "error"
      /\ Count(e.events, "sha256") = 0

C7_Witness ==
  \E e \in Exchanges :
    /\ e.route = "/hash"
    /\ e.req.mimetype = "application/json"
    /\ e.req.body.syntax = "malformed"
    /\ e.status = 400

\* the installs of a completed bootstrap: each provider installed once, the
\* meter provider before the Flask instrumentation
BootOrder ==
  /\ Count(installed, "set_tracer_provider") = 1
  /\ Count(installed, "set_logger_provider") = 1
  /\ Count(installed, "set_meter_provider") = 1
  /\ Count(installed, "instrument_app") = 1
  /\ Pos(installed, "set_meter_provider") < Pos(installed, "instrument_app")

\* C8: bootstrap runs once, in a fixed order, before any request: when a
\* request has been handled the tracer, logger and meter providers have each
\* been installed exactly once, the meter provider before the Flask
\* instrumentation, and no step of the serving state changes an install.
C8_BootstrapOnceBeforeRequests ==
  [][ /\ (history' # << >>) => (pc' = "serving" /\ BootOrder')
      /\ (pc = "serving") =>
           (pc' = "serving" /\ installed' = installed /\ constructed' = constructed)
    ]_vars

C8_Witness ==
  /\ pc = "serving"
  /\ Truthy(otel_endpoint)
  /\ Len(history) = MaxRequests
  /\ history[1].route = "/hash"

CanonicalEvents ==
  << "get_json", "set_attribute:input.length", "log:masked_input", "sha256",
     "set_attribute:hash.algorithm", "log:hash_prefix", "jsonify" >>

\* C9 as stated: span start, digest, JSON response, attribute recording,
\* span end, in this order.
C9_AttributesAfterResponse ==
  \A e \in Exchanges :
    (e.route = "/hash" /\ e.status = 200) =>
      /\ Pos(e.events, "span_start") < Pos(e.events, "sha256")
      /\ Pos(e.events, "sha256") < Pos(e.events, "jsonify")
      /\ Pos(e.events, "jsonify") < Pos(e.events, "set_attribute:input.length")
      /\ Pos(e.events, "jsonify") < Pos(e.events, "set_attribute:hash.algorithm")
      /\ Pos(e.events, "set_attribute:hash.algorithm") < Pos(e.events, "span_end")

\* C9 amended: the generate_hash span is started once and ended once on
\* every path, inside the server span; what runs between is a prefix of: read
\* JSON, record input.length, log, digest, record hash.algorithm, log, JSON
\* response -- the whole of it when the response is 200 -- followed by the
\* recording of the exception when one was raised.
C9_SpanBracketsHandler ==
  \A e \in Exchanges :
    e.route = "/hash" =>
      LET n == Len(e.events)
          inner == SubSeq(e.events, 3, n - 2)
          steps == IF e.status = 200 THEN inner ELSE SubSeq(inner, 1, Len(inner) - 1)
      IN /\ n >= 5
         /\ e.events[1] = "server_span_start" /\ e.events[2] = "span_start"
         /\ e.events[n - 1] = "span_end" /\ e.events[n] = "server_span_end"
         /\ Count(e.events, "span_start") = 1 /\ Count(e.events, "span_end") = 1
         /\ IsPrefix(steps, CanonicalEvents)
         /\ (e.status = 200) <=> (steps = CanonicalEvents)
         /\ (e.status # 200) => inner[Len(inner)] = "record_exception"

C9_Witness ==
  /\ \E e \in Exchanges : e.route = "/hash" /\ e.status = 200
  /\ \E e \in Exchanges : e.route = "/hash" /\ e.status = 500
                          /\ Count(e.events, "log:masked_input") = 1

\* C10 as stated: two POST /hash requests whose texts have the same length
\* leave identical span attributes and identical log records.
C10_SameLengthSameTelemetry ==
  \A e, f \in Exchanges :
    (HasStringText(e) /\ HasStringText(f) /\ Len(TextOf(e)) = Len(TextOf(f))) =>
      (e.attributes = f.attributes /\ e.logs = f.logs)

\* C10 amended: for two POST /hash requests whose texts have the same
\* length, the input.length attribute and the masked log record are identical;
\* every further attribute is hash.algorithm = "SHA256"; the only further log
\* record carries the first 16 hexadecimal digits of the digest returned, so
\* the log records are identical when these digits are.
C10_TelemetryShowsLengthAndDigestPrefix ==
  \A e, f \in Exchanges :
    (HasStringText(e) /\ HasStringText(f) /\ Len(TextOf(e)) = Len(TextOf(f))) =>
      /\ Len(e.attributes) >= 1 /\ Len(e.logs) >= 1
      /\ e.attributes[1] = << "input.length", Len(TextOf(e)) >>
      /\ e.attributes[1] = f.attributes[1]
      /\ e.logs[1] = f.logs[1]
      /\ \A k \in 2..Len(e.attributes) : e.attributes[k] = << "hash.algorithm", "SHA256" >>
      /\ Len(e.logs) <= 2
      /\ Len(e.logs) = 2 =>
           /\ e.status = 200
           /\ e.logs[2] = "Generated hash: " \o SubSeq(e.body.hash, 1, 16) \o "..."
      /\ (/\ e.status = 200 /\ f.status = 200
          /\ SubSeq(e.body.hash, 1, 16) = SubSeq(f.body.hash, 1, 16)) => e.logs = f.logs

C10_Witness ==
  \E e, f \in Exchanges :
    /\ HasStringText(e) /\ HasStringText(f)
    /\ Len(TextOf(e)) = Len(TextOf(f))
    /\ TextOf(e) # TextOf(f)
    /\ e.status = 200 /\ f.status = 200
    /\ e.logs # f.logs

====
